---- MODULE Spec2Model ----
(***************************************************************************)
(* The Strategy demo (behavioral/strategy/src/python/strategy.py): three   *)
(* in-place sorting strategies behind DataProcessor, executed statement by *)
(* statement with an explicit stack for the recursive calls, and the       *)
(* thread-safe Singleton demo (creation/singleton/.../advanced_singleton). *)
(*                                                                         *)
(* Indices are the code's 0-based indices; a list is a TLA+ sequence, so   *)
(* list index x is sequence position x + 1.  Elements are records with a   *)
(* key (what the comparisons see) and a tag (the element's position in the *)
(* input, which the comparisons never read).                               *)
(***************************************************************************)
EXTENDS Integers, Sequences, FiniteSets, TLC

VARIABLES
    sort_strategy,  \* DataProcessor.sort_strategy
    requested,      \* history: the strategy last passed to __init__ / set_sort_strategy
    running,        \* history: the strategy whose sort() the last process_data entered
    data,           \* identity of the list object passed to process_data (None: none yet)
    ret,            \* identity of the object process_data returned (None: not returned)
    array,          \* contents of that list object
    input,          \* history: its contents when process_data was called
    pc,             \* where the single thread of the demo is
    stack,          \* frames of quick_sort / merge_sort, innermost first
    i, j, k,        \* locals of partition / BubbleSortStrategy.sort / merge
    n,              \* local of BubbleSortStrategy.sort
    pivot,          \* local of partition
    L, R,           \* locals of merge
    cmps,           \* history: element comparisons made by the current sort call
    mainpc,         \* position in main()
    printed,        \* what main() has printed: <<label, keys>> per line
    instances,      \* SingletonMeta._instances: class -> instance (None: absent)
    lock,           \* SingletonMeta._lock: the thread holding it (0: free)
    heap,           \* the Singleton objects constructed so far: their .value
    tpc,            \* per thread: position in test_singleton / __call__
    instance,       \* per thread: local `instance` of __call__
    singleton,      \* per thread: local `singleton` of test_singleton
    shown,          \* per thread: the value it printed
    value,          \* per thread: the argument of test_singleton
    winner,         \* history: the first thread to take the lock (0: none yet)
    balance,        \* BankAccountProxy.bank_account.balance
    permissions,    \* BankAccountProxy.permissions
    result,         \* what the last get_balance call returned
    call,           \* history: the last method called on the proxy
    said            \* the last line the proxy or the account printed

sortVars == <<sort_strategy, requested, running, data, ret, array, input, pc,
              stack, i, j, k, n, pivot, L, R, cmps>>
mainVars == <<mainpc, printed>>
singVars == <<instances, lock, heap, tpc, instance, singleton, shown, value, winner>>
proxyVars == <<balance, permissions, result, call, said>>
vars == <<sortVars, mainVars, singVars, proxyVars>>

(***************************************************************************)
(* Bounds of the model.                                                    *)
(***************************************************************************)
MaxLen == 4
NumKeys == 2
NumObjs == 1
NumThreads == 2
MaxAmount == 2
MaxBalance == 4

None == 0
Strategies == {"QuickSortStrategy", "BubbleSortStrategy", "MergeSortStrategy"}
ObjIds == 1..NumObjs
Threads == 1..NumThreads
Values == {"FOO", "BAR"}

Elem(key, tag) == [key |-> key, tag |-> tag]
NoElem == Elem(0, -1)
Tagged(ks) == [p \in 1..Len(ks) |-> Elem(ks[p], p - 1)]
Keys(a) == [p \in 1..Len(a) |-> a[p].key]
Inputs == UNION {{Tagged(ks) : ks \in [1..m -> 1..NumKeys]} : m \in 0..MaxLen}

(***************************************************************************)
(* Python list operations, as the interpreter performs them.               *)
(***************************************************************************)
len(a) == Len(a)
InRange(a, x) == -Len(a) <= x /\ x < Len(a)
Pos(a, x) == IF x < 0 THEN Len(a) + x + 1 ELSE x + 1
GetItem(a, x) == a[Pos(a, x)]
\* array.insert(k, v) where array[k] = v is meant
InsertItem(a, x, v) == SubSeq(a, 1, Pos(a, x) - 1) \o <<v>> \o SubSeq(a, Pos(a, x), Len(a))
SetItem(a, x, v) == [a EXCEPT ![Pos(a, x)] = v]
Exchange(a, x, y) == [a EXCEPT ![Pos(a, x)] = a[Pos(a, y)], ![Pos(a, y)] = a[Pos(a, x)]]
Clamp(a, x) ==
    LET y == IF x < 0 THEN x + Len(a) ELSE x
    IN  IF y < 0 THEN 0 ELSE IF y > Len(a) THEN Len(a) ELSE y
Slice(a, lo, hi) ==
    LET l == Clamp(a, lo)
        h == Clamp(a, hi)
    IN  IF l >= h THEN <<>> ELSE SubSeq(a, l + 1, h)

(***************************************************************************)
(* The element comparisons the strategies use.                             *)
(***************************************************************************)
\* the comparison of partition inverted
PartitionGreater(x, y) == x.key > y.key
\* the comparison of partition made non-strict
PartitionLessEq(x, y) == x.key <= y.key
PartitionLess(x, y) == x.key < y.key
\* the comparison of the bubble sort made non-strict
BubbleGreaterEq(x, y) == x.key >= y.key
BubbleGreater(x, y) == x.key > y.key
MergeLessEq(x, y) == x.key <= y.key

Top == Head(stack)
Push(f) == <<f>> \o stack
SetTop(f) == <<f>> \o Tail(stack)
Pop == Tail(stack)

leafVars == <<i, j, k, n, pivot, L, R>>
procVars == <<sort_strategy, requested, running, data, ret, input>>
otherVars == <<mainVars, singVars, proxyVars>>

(***************************************************************************)
(* DataProcessor                                                           *)
(***************************************************************************)
\* the assignment made to a local name instead of the field
set_sort_strategy_local(s) ==
    /\ pc = "idle"
    /\ requested' = s
    /\ UNCHANGED <<sort_strategy, running, data, ret, array, input, pc, stack, leafVars, cmps>>

set_sort_strategy(s) ==
    /\ pc = "idle"
    /\ sort_strategy' = s
    /\ requested' = s
    /\ UNCHANGED <<running, data, ret, array, input, pc, stack, leafVars, cmps>>

\* process_data entered: self.sort_strategy.sort(data) is dispatched on the bound strategy
process_data(id, d) ==
    /\ pc = "idle"
    /\ data' = id
    /\ array' = d
    /\ input' = d
    /\ ret' = None
    /\ running' = sort_strategy
    /\ cmps' = 0
    /\ pc' = "sort"
    /\ UNCHANGED <<sort_strategy, requested, stack, leafVars>>

process_data_return ==
    /\ pc = "return"
    /\ ret' = data
    /\ pc' = "idle"
    /\ UNCHANGED <<sort_strategy, requested, running, data, array, input, stack,
                   leafVars, cmps, otherVars>>


\* an IndexError propagates out of sort and process_data: the demo stops there
Raise ==
    /\ pc' = "raised"
    /\ UNCHANGED <<procVars, array, stack, leafVars, cmps>>

Unset == -1
Frame(lo, hi) == [lo |-> lo, hi |-> hi, mid |-> Unset, at |-> "if"]
\* the innermost call returns: to its caller's frame, or to process_data
Return ==
    /\ stack' = Pop
    /\ pc' = IF Len(stack) = 1 THEN "return" ELSE pc

(***************************************************************************)
(* QuickSortStrategy.  A frame's lo, hi, mid are low, high, pi.            *)
(***************************************************************************)
\* len(array) passed as high
QuickSortHighLen(a) == len(a)
QuickSortHigh(a) == len(a) - 1

QuickSortStrategy_sort ==
    /\ pc = "sort"
    /\ running = "QuickSortStrategy"
    /\ stack' = Push(Frame(0, QuickSortHigh(array)))
    /\ pc' = "quick_sort"
    /\ UNCHANGED <<procVars, array, leafVars, cmps, otherVars>>

\* if low < high fails: nothing to do
quick_sort_base ==
    /\ pc = "quick_sort"
    /\ Top.at = "if"
    /\ ~(Top.lo < Top.hi)
    /\ Return
    /\ UNCHANGED <<procVars, array, leafVars, cmps, otherVars>>

\* pi = self.partition(array, low, high): partition's first two statements
partition_enter ==
    /\ pc = "quick_sort"
    /\ Top.at = "if"
    /\ Top.lo < Top.hi
    /\ IF InRange(array, Top.hi)
       THEN /\ pivot' = GetItem(array, Top.hi)
            /\ i' = Top.lo - 1
            /\ j' = Top.lo
            /\ stack' = SetTop([Top EXCEPT !.at = "pi"])
            /\ pc' = "partition"
            /\ UNCHANGED <<procVars, array, k, n, L, R, cmps>>
       ELSE Raise
    /\ UNCHANGED otherVars

\* one iteration of for j in range(low, high)
partition_iter ==
    /\ pc = "partition"
    /\ j < Top.hi
    /\ IF ~InRange(array, j)
       THEN Raise
       ELSE IF PartitionLess(GetItem(array, j), pivot)
            THEN IF InRange(array, i + 1)
                 THEN /\ i' = i + 1
                      /\ array' = Exchange(array, i + 1, j)
                      /\ j' = j + 1
                      /\ cmps' = cmps + 1
                      /\ UNCHANGED <<procVars, pc, stack, k, n, pivot, L, R>>
                 ELSE Raise
            ELSE /\ j' = j + 1
                 /\ cmps' = cmps + 1
                 /\ UNCHANGED <<procVars, array, pc, stack, i, k, n, pivot, L, R>>
    /\ UNCHANGED otherVars

\* the exchange after the scan, and return i + 1
partition_return ==
    /\ pc = "partition"
    /\ ~(j < Top.hi)
    /\ IF InRange(array, i + 1) /\ InRange(array, Top.hi)
       THEN /\ array' = Exchange(array, i + 1, Top.hi)
            /\ stack' = SetTop([Top EXCEPT !.mid = i + 1, !.at = "rec1"])
            /\ pc' = "quick_sort"
            /\ i' = 0
            /\ j' = 0
            /\ pivot' = NoElem
            /\ UNCHANGED <<procVars, k, n, L, R, cmps>>
       ELSE Raise
    /\ UNCHANGED otherVars

\* self.quick_sort(array, low, pi - 1)
quick_sort_rec1 ==
    /\ pc = "quick_sort"
    /\ Top.at = "rec1"
    /\ stack' = <<Frame(Top.lo, Top.mid - 1), [Top EXCEPT !.at = "rec2"]>> \o Tail(stack)
    /\ UNCHANGED <<procVars, array, pc, leafVars, cmps, otherVars>>

\* self.quick_sort(array, pi + 1, high)
quick_sort_rec2 ==
    /\ pc = "quick_sort"
    /\ Top.at = "rec2"
    /\ stack' = <<Frame(Top.mid + 1, Top.hi), [Top EXCEPT !.at = "end"]>> \o Tail(stack)
    /\ UNCHANGED <<procVars, array, pc, leafVars, cmps, otherVars>>

quick_sort_end ==
    /\ pc = "quick_sort"
    /\ Top.at = "end"
    /\ Return
    /\ UNCHANGED <<procVars, array, leafVars, cmps, otherVars>>

(***************************************************************************)
(* BubbleSortStrategy                                                      *)
(***************************************************************************)
OuterRange(m) == m - 1
\* the inner range one short
InnerRangeShort(m, x) == m - 2 - x
\* the inner range one long
InnerRangeLong(m, x) == m - x
InnerRange(m, x) == m - 1 - x

BubbleSortStrategy_sort ==
    /\ pc = "sort"
    /\ running = "BubbleSortStrategy"
    /\ n' = len(array)
    /\ i' = 0
    /\ j' = 0
    /\ pc' = "bubble"
    /\ UNCHANGED <<procVars, array, stack, k, pivot, L, R, cmps, otherVars>>

\* one iteration of for j in range(n - 1 - i)
bubble_iter ==
    /\ pc = "bubble"
    /\ i < OuterRange(n)
    /\ j < InnerRange(n, i)
    /\ IF InRange(array, j) /\ InRange(array, j + 1)
       THEN /\ array' = IF BubbleGreater(GetItem(array, j), GetItem(array, j + 1))
                        THEN Exchange(array, j, j + 1)
                        ELSE array
            /\ j' = j + 1
            /\ cmps' = cmps + 1
            /\ UNCHANGED <<procVars, pc, stack, i, k, n, pivot, L, R>>
       ELSE Raise
    /\ UNCHANGED otherVars

\* the inner range is exhausted: next i
bubble_next_pass ==
    /\ pc = "bubble"
    /\ i < OuterRange(n)
    /\ ~(j < InnerRange(n, i))
    /\ i' = i + 1
    /\ j' = 0
    /\ UNCHANGED <<procVars, array, pc, stack, k, n, pivot, L, R, cmps, otherVars>>

bubble_return ==
    /\ pc = "bubble"
    /\ ~(i < OuterRange(n))
    /\ pc' = "return"
    /\ i' = 0
    /\ j' = 0
    /\ n' = 0
    /\ UNCHANGED <<procVars, array, stack, k, pivot, L, R, cmps, otherVars>>

(***************************************************************************)
(* MergeSortStrategy.  A frame's lo, hi, mid are left, right, middle.      *)
(***************************************************************************)
n1 == Top.mid - Top.lo + 1
n2 == Top.hi - Top.mid

MergeSortStrategy_sort ==
    /\ pc = "sort"
    /\ running = "MergeSortStrategy"
    /\ stack' = Push(Frame(0, len(array) - 1))
    /\ pc' = "merge_sort"
    /\ UNCHANGED <<procVars, array, leafVars, cmps, otherVars>>

merge_sort_base ==
    /\ pc = "merge_sort"
    /\ Top.at = "if"
    /\ ~(Top.lo < Top.hi)
    /\ Return
    /\ UNCHANGED <<procVars, array, leafVars, cmps, otherVars>>

\* the midpoint taken at the right end
MiddleRight(left, right) == right
Middle(left, right) == (left + right) \div 2

\* middle = (left + right) // 2; self.merge_sort(array, left, middle)
merge_sort_rec1 ==
    /\ pc = "merge_sort"
    /\ Top.at = "if"
    /\ Top.lo < Top.hi
    /\ LET middle == Middle(Top.lo, Top.hi)
       IN  stack' = <<Frame(Top.lo, middle), [Top EXCEPT !.mid = middle, !.at = "rec2"]>>
                    \o Tail(stack)
    /\ UNCHANGED <<procVars, array, pc, leafVars, cmps, otherVars>>

\* self.merge_sort(array, middle + 1, right)
merge_sort_rec2 ==
    /\ pc = "merge_sort"
    /\ Top.at = "rec2"
    /\ stack' = <<Frame(Top.mid + 1, Top.hi), [Top EXCEPT !.at = "merge"]>> \o Tail(stack)
    /\ UNCHANGED <<procVars, array, pc, leafVars, cmps, otherVars>>

\* the index merge starts writing at: i = j = k = 0
MergeStart(left) == 0

\* self.merge(array, left, middle, right): merge up to its first loop
merge_enter ==
    /\ pc = "merge_sort"
    /\ Top.at = "merge"
    /\ L' = Slice(array, Top.lo, Top.lo + n1)
    /\ R' = Slice(array, Top.mid + 1, Top.mid + 1 + n2)
    /\ i' = 0
    /\ j' = 0
    /\ k' = MergeStart(Top.lo)
    /\ stack' = SetTop([Top EXCEPT !.at = "end"])
    /\ pc' = "merge"
    /\ UNCHANGED <<procVars, array, n, pivot, cmps, otherVars>>

\* one iteration of while i < n1 and j < n2
merge_take ==
    /\ pc = "merge"
    /\ i < n1 /\ j < n2
    /\ IF InRange(L, i) /\ InRange(R, j) /\ InRange(array, k)
       THEN /\ IF MergeLessEq(GetItem(L, i), GetItem(R, j))
               THEN /\ array' = SetItem(array, k, GetItem(L, i))
                    /\ i' = i + 1
                    /\ j' = j
               ELSE /\ array' = SetItem(array, k, GetItem(R, j))
                    /\ j' = j + 1
                    /\ i' = i
            /\ k' = k + 1
            /\ cmps' = cmps + 1
            /\ UNCHANGED <<procVars, pc, stack, n, pivot, L, R>>
       ELSE Raise
    /\ UNCHANGED otherVars

\* one iteration of while i < n1
merge_drain_L ==
    /\ pc = "merge"
    /\ ~(i < n1 /\ j < n2)
    /\ i < n1
    /\ IF InRange(L, i) /\ InRange(array, k)
       THEN /\ array' = SetItem(array, k, GetItem(L, i))
            /\ i' = i + 1
            /\ k' = k + 1
            /\ UNCHANGED <<procVars, pc, stack, j, n, pivot, L, R, cmps>>
       ELSE Raise
    /\ UNCHANGED otherVars

\* one iteration of while j < n2
merge_drain_R ==
    /\ pc = "merge"
    /\ ~(i < n1)
    /\ j < n2
    /\ IF InRange(R, j) /\ InRange(array, k)
       THEN /\ array' = SetItem(array, k, GetItem(R, j))
            /\ j' = j + 1
            /\ k' = k + 1
            /\ UNCHANGED <<procVars, pc, stack, i, n, pivot, L, R, cmps>>
       ELSE Raise
    /\ UNCHANGED otherVars

merge_return ==
    /\ pc = "merge"
    /\ ~(i < n1)
    /\ ~(j < n2)
    /\ pc' = "merge_sort"
    /\ i' = 0
    /\ j' = 0
    /\ k' = 0
    /\ L' = <<>>
    /\ R' = <<>>
    /\ UNCHANGED <<procVars, array, stack, n, pivot, cmps, otherVars>>

merge_sort_end ==
    /\ pc = "merge_sort"
    /\ Top.at = "end"
    /\ Return
    /\ UNCHANGED <<procVars, array, leafVars, cmps, otherVars>>

SortStep ==
    \/ QuickSortStrategy_sort \/ quick_sort_base \/ partition_enter \/ partition_iter
    \/ partition_return \/ quick_sort_rec1 \/ quick_sort_rec2 \/ quick_sort_end
    \/ BubbleSortStrategy_sort \/ bubble_iter \/ bubble_next_pass \/ bubble_return
    \/ MergeSortStrategy_sort \/ merge_sort_base \/ merge_sort_rec1 \/ merge_sort_rec2
    \/ merge_enter \/ merge_take \/ merge_drain_L \/ merge_drain_R \/ merge_return
    \/ merge_sort_end
    \/ process_data_return


(***************************************************************************)
(* main(): the demonstration.  Each data = [5, 2, 9, 1, 5, 6] is a new     *)
(* list object.                                                            *)
(***************************************************************************)
DemoData == Tagged(<<5, 2, 9, 1, 5, 6>>)
MainStages == <<"QuickSort:", "BubbleSort:", "MergeSort:">>
MainStrategy(stage) ==
    CASE stage = 1 -> "QuickSortStrategy"
      [] stage = 2 -> "BubbleSortStrategy"
      [] stage = 3 -> "MergeSortStrategy"

\* data_processor.set_sort_strategy(...) before the second and third run
main_set_sort_strategy ==
    /\ mainpc.at = "set"
    /\ set_sort_strategy(MainStrategy(mainpc.stage))
    /\ mainpc' = [mainpc EXCEPT !.at = "process"]
    /\ UNCHANGED <<printed, singVars, proxyVars>>

\* data = [5, 2, 9, 1, 5, 6]; data_processor.process_data(data)
main_process_data ==
    /\ mainpc.at = "process"
    /\ process_data(mainpc.stage, DemoData)
    /\ mainpc' = [mainpc EXCEPT !.at = "print"]
    /\ UNCHANGED <<printed, singVars, proxyVars>>

\* print(label, data), once process_data has returned
main_print ==
    /\ mainpc.at = "print"
    /\ pc = "idle"
    /\ printed' = Append(printed, <<MainStages[mainpc.stage], Keys(array)>>)
    /\ mainpc' = IF mainpc.stage < Len(MainStages)
                 THEN [stage |-> mainpc.stage + 1, at |-> "set"]
                 ELSE [mainpc EXCEPT !.at = "done"]
    /\ UNCHANGED <<sortVars, singVars, proxyVars>>

(***************************************************************************)
(* SingletonMeta.__call__ and test_singleton, one thread per call.         *)
(***************************************************************************)
Classes == {"Singleton"}
cls == "Singleton"
sortAndMain == <<sortVars, mainVars, proxyVars>>

\* the critical section entered without taking the lock
acquire_unlocked(t) ==
    /\ tpc[t] = "start"
    /\ winner' = IF winner = 0 THEN t ELSE winner
    /\ tpc' = [tpc EXCEPT ![t] = "check"]
    /\ UNCHANGED <<instances, lock, heap, instance, singleton, shown, value, sortAndMain>>

\* with cls._lock: entered
acquire(t) ==
    /\ tpc[t] = "start"
    /\ lock = 0
    /\ lock' = t
    /\ winner' = IF winner = 0 THEN t ELSE winner
    /\ tpc' = [tpc EXCEPT ![t] = "check"]
    /\ UNCHANGED <<instances, heap, instance, singleton, shown, value, sortAndMain>>

\* if cls not in cls._instances: taken
check_absent(t) ==
    /\ tpc[t] = "check"
    /\ instances[cls] = None
    /\ tpc' = [tpc EXCEPT ![t] = "create"]
    /\ UNCHANGED <<instances, lock, heap, instance, singleton, shown, value, winner,
                   sortAndMain>>

\* if cls not in cls._instances: not taken
check_present(t) ==
    /\ tpc[t] = "check"
    /\ instances[cls] # None
    /\ tpc' = [tpc EXCEPT ![t] = "release"]
    /\ UNCHANGED <<instances, lock, heap, instance, singleton, shown, value, winner,
                   sortAndMain>>

\* instance = super().__call__(*args, **kargs): a new object, Singleton.__init__ on it
create(t) ==
    /\ tpc[t] = "create"
    /\ heap' = Append(heap, value[t])
    /\ instance' = [instance EXCEPT ![t] = Len(heap) + 1]
    /\ tpc' = [tpc EXCEPT ![t] = "store"]
    /\ UNCHANGED <<instances, lock, singleton, shown, value, winner, sortAndMain>>

\* cls._instances[cls] = instance
store(t) ==
    /\ tpc[t] = "store"
    /\ instances' = [instances EXCEPT ![cls] = instance[t]]
    /\ tpc' = [tpc EXCEPT ![t] = "release"]
    /\ UNCHANGED <<lock, heap, instance, singleton, shown, value, winner, sortAndMain>>

\* the with block is left
release(t) ==
    /\ tpc[t] = "release"
    /\ lock' = 0
    /\ tpc' = [tpc EXCEPT ![t] = "return"]
    /\ UNCHANGED <<instances, heap, instance, singleton, shown, value, winner,
                   sortAndMain>>

\* return cls._instances[cls]; singleton = Singleton(value)
call_return(t) ==
    /\ tpc[t] = "return"
    /\ singleton' = [singleton EXCEPT ![t] = instances[cls]]
    /\ tpc' = [tpc EXCEPT ![t] = "print"]
    /\ UNCHANGED <<instances, lock, heap, instance, shown, value, winner, sortAndMain>>

\* print(singleton.value)
print_value(t) ==
    /\ tpc[t] = "print"
    /\ shown' = [shown EXCEPT ![t] = heap[singleton[t]]]
    /\ tpc' = [tpc EXCEPT ![t] = "done"]
    /\ UNCHANGED <<instances, lock, heap, instance, singleton, value, winner,
                   sortAndMain>>

(***************************************************************************)
(* BankAccount and BankAccountProxy (structural/proxy/src/python/proxy.py). *)
(* A return value is <<v>>, or <<>> for Python's None.                      *)
(***************************************************************************)
PyNone == <<>>
Some(v) == <<v>>
Amounts == (-MaxAmount)..MaxAmount
Balances == (-MaxBalance)..MaxBalance
notProxy == <<sortVars, mainVars, singVars>>

\* BankAccount.deposit
BankAccount_deposit(amount) ==
    /\ balance' = balance + amount
    /\ said' = <<"Deposited", amount, balance + amount>>

\* BankAccount.withdraw
BankAccount_withdraw(amount) ==
    IF amount > balance
    THEN /\ said' = <<"Insufficient funds">>
         /\ UNCHANGED balance
    ELSE /\ balance' = balance - amount
         /\ said' = <<"Withdrew", amount, balance - amount>>

\* BankAccount.get_balance
BankAccount_get_balance == balance

set_permissions(view_balance, modify_balance) ==
    /\ permissions' = [view_balance |-> view_balance, modify_balance |-> modify_balance]
    /\ call' = "set_permissions"
    /\ UNCHANGED <<balance, result, said, notProxy>>

\* deposit without the permission test
deposit_unchecked(amount) ==
    /\ BankAccount_deposit(amount)
    /\ balance' \in Balances
    /\ call' = "deposit"
    /\ UNCHANGED <<permissions, result, notProxy>>

\* BankAccountProxy.deposit
deposit(amount) ==
    /\ IF permissions["modify_balance"]
       THEN BankAccount_deposit(amount)
       ELSE /\ said' = <<"Permission denied: Cannot deposit">>
            /\ UNCHANGED balance
    /\ balance' \in Balances
    /\ call' = "deposit"
    /\ UNCHANGED <<permissions, result, notProxy>>

\* BankAccountProxy.withdraw
withdraw(amount) ==
    /\ IF permissions["modify_balance"]
       THEN BankAccount_withdraw(amount)
       ELSE /\ said' = <<"Permission denied: Cannot withdraw">>
            /\ UNCHANGED balance
    /\ balance' \in Balances
    /\ call' = "withdraw"
    /\ UNCHANGED <<permissions, result, notProxy>>

\* BankAccountProxy.get_balance
get_balance ==
    /\ IF permissions["view_balance"]
       THEN /\ result' = Some(BankAccount_get_balance)
            /\ UNCHANGED said
       ELSE /\ said' = <<"Permission denied: Cannot view balance">>
            /\ result' = PyNone
    /\ call' = "get_balance"
    /\ UNCHANGED <<balance, permissions, notProxy>>

\* BankAccountProxy.__init__
BankAccountProxy_init(b) ==
    /\ balance = b
    /\ permissions = [view_balance |-> FALSE, modify_balance |-> FALSE]
    /\ result = PyNone
    /\ said = <<>>

(***************************************************************************)
(* Initial states and specifications.                                      *)
(***************************************************************************)
\* DataProcessor.__init__
DataProcessor_init(s) ==
    /\ sort_strategy = s
    /\ requested = s

SortIdle ==
    /\ running = "none"
    /\ data = None
    /\ ret = None
    /\ array = <<>>
    /\ input = <<>>
    /\ pc = "idle"
    /\ stack = <<>>
    /\ i = 0 /\ j = 0 /\ k = 0 /\ n = 0
    /\ pivot = NoElem
    /\ L = <<>> /\ R = <<>>
    /\ cmps = 0

MainOff ==
    /\ mainpc = [stage |-> 0, at |-> "off"]
    /\ printed = <<>>

ProxyOff ==
    /\ BankAccountProxy_init(0)
    /\ call = "off"

SingStart(vals) ==
    /\ instances = [c \in Classes |-> None]
    /\ lock = 0
    /\ heap = <<>>
    /\ tpc = [t \in Threads |-> "start"]
    /\ instance = [t \in Threads |-> None]
    /\ singleton = [t \in Threads |-> None]
    /\ shown = [t \in Threads |-> "-"]
    /\ value = vals
    /\ winner = 0

SingOff == SingStart([t \in Threads |-> "FOO"])

\* any sequence of set_sort_strategy and process_data calls on a DataProcessor
Init ==
    /\ \E s \in Strategies : DataProcessor_init(s)
    /\ SortIdle
    /\ MainOff
    /\ SingOff
    /\ ProxyOff

Next ==
    \/ \E s \in Strategies : set_sort_strategy(s) /\ UNCHANGED otherVars
    \/ \E id \in ObjIds, d \in Inputs : process_data(id, d) /\ UNCHANGED otherVars
    \/ SortStep

Spec == Init /\ [][Next]_vars

\* main()
MainInit ==
    /\ DataProcessor_init("QuickSortStrategy")
    /\ SortIdle
    /\ mainpc = [stage |-> 1, at |-> "process"]
    /\ printed = <<>>
    /\ SingOff
    /\ ProxyOff

MainNext ==
    \/ main_set_sort_strategy
    \/ main_process_data
    \/ main_print
    \/ SortStep

SpecMain == MainInit /\ [][MainNext]_vars

\* the threads of the Singleton demo, each calling test_singleton(value)
SingInit ==
    /\ DataProcessor_init("QuickSortStrategy")
    /\ SortIdle
    /\ MainOff
    /\ \E vals \in [Threads -> Values] : SingStart(vals)
    /\ ProxyOff

SingNext ==
    \E t \in Threads :
        \/ acquire(t) \/ check_absent(t) \/ check_present(t) \/ create(t)
        \/ store(t) \/ release(t) \/ call_return(t) \/ print_value(t)

SpecSingleton == SingInit /\ [][SingNext]_vars

\* one process_data call, run on the caller's thread until it returns: a
\* statement that can be executed is executed
OnceNext ==
    \/ \E id \in ObjIds, d \in Inputs :
           data = None /\ process_data(id, d) /\ UNCHANGED otherVars
    \/ SortStep

SpecOnce == Init /\ [][OnceNext]_vars /\ WF_vars(SortStep)

\* any sequence of calls on a BankAccountProxy
ProxyInit ==
    /\ DataProcessor_init("QuickSortStrategy")
    /\ SortIdle
    /\ MainOff
    /\ SingOff
    /\ \E b \in 0..MaxBalance : BankAccountProxy_init(b)
    /\ call = "__init__"

ProxyNext ==
    \/ \E v, m \in BOOLEAN : set_permissions(v, m)
    \/ \E amount \in Amounts : deposit(amount)
    \/ \E amount \in Amounts : withdraw(amount)
    \/ get_balance

SpecProxy == ProxyInit /\ [][ProxyNext]_vars


(***************************************************************************)
(* Properties.                                                             *)
(***************************************************************************)
Range(a) == {a[p] : p \in DOMAIN a}
Count(a, x) == Cardinality({p \in DOMAIN a : a[p] = x})
IsPermutation(a, b) == \A x \in Range(a) \cup Range(b) : Count(a, x) = Count(b, x)
IsSorted(a) == \A p \in 1..(Len(a) - 1) : a[p].key <= a[p + 1].key
\* elements of b that compare equal keep in a the order they have in b
IsStable(a, b) ==
    \A p, q \in DOMAIN b :
        (p < q /\ b[p].key = b[q].key) =>
            \E pp, qq \in DOMAIN a : pp < qq /\ a[pp] = b[p] /\ a[qq] = b[q]
\* process_data has returned and nothing was called since, but set_sort_strategy
Returned == pc = "idle" /\ ret # None
ReturnedFrom(s) == Returned /\ running = s

\* C1: after MergeSortStrategy.sort returns, the array is a permutation of its
\* input (the same multiset of keys) and is in non-decreasing order.
C1_MergeSortSorts ==
    ReturnedFrom("MergeSortStrategy") =>
        /\ IsPermutation(Keys(array), Keys(input))
        /\ IsSorted(array)

\* C2: after QuickSortStrategy.sort returns, the array is a permutation of its
\* input (the same multiset of elements) and is in non-decreasing order,
\* duplicates, sorted and reverse-sorted inputs included.
C2_QuickSortSorts ==
    ReturnedFrom("QuickSortStrategy") =>
        /\ IsPermutation(array, input)
        /\ IsSorted(array)

C2_Witness ==
    /\ ReturnedFrom("QuickSortStrategy")
    /\ Keys(input) = <<2, 2, 1, 1>>
    /\ Keys(array) = <<1, 1, 2, 2>>

\* the comparisons made when pass x is at inner index y, all earlier passes complete
BubbleComparisons(m, x, y) == x * (m - 1) - (x * (x - 1)) \div 2 + y

\* C3: after BubbleSortStrategy.sort returns, the array is a permutation of its
\* input in non-decreasing order, and the passes are the fixed ones: pass i
\* compares j = 0..n-2-i, every pass i = 0..n-2 runs in full, none is skipped,
\* so a call makes n(n-1)/2 comparisons whatever the input.
C3_BubbleSortSorts ==
    /\ ReturnedFrom("BubbleSortStrategy") =>
        /\ IsPermutation(array, input)
        /\ IsSorted(array)
        /\ cmps = IF Len(input) = 0 THEN 0 ELSE BubbleComparisons(Len(input), Len(input) - 1, 0)
    /\ pc = "bubble" =>
        /\ n = Len(input)
        /\ 0 <= i /\ 0 <= j
        /\ n > 0 => (i <= n - 1 /\ j <= n - 1 - i)
        /\ cmps = IF n = 0 THEN 0 ELSE BubbleComparisons(n, i, j)

C3_Witness ==
    /\ ReturnedFrom("BubbleSortStrategy")
    /\ Keys(input) = <<1, 1, 2, 2>>
    /\ cmps = 6

DemoExpected == <<1, 2, 5, 5, 6, 9>>

C5_Idempotent ==
    (Returned /\ IsSorted(input)) => Keys(array) = Keys(input)

\* C6: MergeSortStrategy.sort is stable: of two input elements that compare
\* equal, the earlier one in the input is the earlier one in the output.
C6_MergeSortStable ==
    ReturnedFrom("MergeSortStrategy") => IsStable(array, input)

\* C7: on the empty sequence and on a single-element sequence, sort of each
\* strategy raises no error and leaves the sequence unchanged, at every step
\* and when it has returned; it compares nothing and does not recurse.
C7_Boundary ==
    Len(input) <= 1 =>
        /\ pc # "raised"
        /\ array = input
        /\ cmps = 0
        /\ Len(stack) <= 1
        /\ pc # "idle" => ENABLED SortStep

C7_Witness ==
    /\ ReturnedFrom("QuickSortStrategy")
    /\ Len(input) = 1
    /\ array = input

\* C8: at every step of sort, of each strategy, and after it has returned, the
\* sequence has the length it had when process_data was called.
C8_LengthKept == Len(array) = Len(input)

C8_Witness ==
    /\ pc = "merge"
    /\ Top.lo > 0
    /\ k > 0
    /\ array # input

\* C9: the sort that a process_data call runs is the one of the strategy last
\* passed to set_sort_strategy (or to the constructor); set_sort_strategy
\* changes no data sequence; process_data returns the object it was given.
C9_HotSwap ==
    /\ [](/\ pc # "idle" => (running = requested /\ running = sort_strategy)
          /\ pc \in {"quick_sort", "partition"} => running = "QuickSortStrategy"
          /\ pc = "bubble" => running = "BubbleSortStrategy"
          /\ pc \in {"merge_sort", "merge"} => running = "MergeSortStrategy"
          /\ Returned => ret = data)
    /\ [][(pc = "idle" /\ pc' = "idle") =>
            (array' = array /\ input' = input /\ data' = data /\ ret' = ret)]_vars
    /\ [][pc = "return" => (ret' = data /\ data' = data)]_vars

C9_Witness ==
    /\ Returned
    /\ sort_strategy # running
    /\ array # input
    /\ ret = data

\* C10: whatever the interleaving of the threads calling Singleton(value), the
\* constructor runs once, _instances holds that one instance, every caller
\* gets it, and every thread prints the value passed by the thread that took
\* the lock first.
C10_SingletonOnce ==
    /\ Len(heap) <= 1
    /\ (\E t \in Threads : tpc[t] \in {"release", "return", "print", "done"}) =>
           (Len(heap) = 1 /\ instances[cls] = 1)
    /\ \A t \in Threads :
           /\ tpc[t] \in {"print", "done"} => singleton[t] = instances[cls]
           /\ tpc[t] = "done" => shown[t] = value[winner]

C10_Witness ==
    /\ \A t \in Threads : tpc[t] = "done"
    /\ value[1] # value[2]
    /\ winner = 2
    /\ shown[1] = value[2]


\* an index of a sequence of length m that is inside 0..m-1
Inside(m, x) == 0 <= x /\ x < m

\* the <<length, index>> pairs of the list accesses the next statement makes
NextAccesses ==
    CASE pc = "quick_sort" /\ Top.at = "if" /\ Top.lo < Top.hi ->
             {<<Len(array), Top.hi>>}
      [] pc = "partition" /\ j < Top.hi ->
             {<<Len(array), j>>} \cup
             (IF InRange(array, j) /\ PartitionLess(GetItem(array, j), pivot)
              THEN {<<Len(array), i + 1>>} ELSE {})
      [] pc = "partition" /\ ~(j < Top.hi) ->
             {<<Len(array), i + 1>>, <<Len(array), Top.hi>>}
      [] pc = "bubble" /\ i < OuterRange(n) /\ j < InnerRange(n, i) ->
             {<<Len(array), j>>, <<Len(array), j + 1>>}
      [] pc = "merge" /\ i < n1 /\ j < n2 ->
             {<<Len(L), i>>, <<Len(R), j>>, <<Len(array), k>>}
      [] pc = "merge" /\ ~(i < n1 /\ j < n2) /\ i < n1 ->
             {<<Len(L), i>>, <<Len(array), k>>}
      [] pc = "merge" /\ ~(i < n1) /\ j < n2 ->
             {<<Len(R), j>>, <<Len(array), k>>}
      [] OTHER -> {}

\* C11: in every sort call of every strategy, each index about to be used on
\* the sequence, on L or on R is inside 0..length-1 (L and R having the
\* lengths n1 and n2), and no IndexError is ever raised.
C11_IndicesInRange ==
    /\ pc # "raised"
    /\ \A acc \in NextAccesses : Inside(acc[1], acc[2])
    /\ pc = "merge" => (Len(L) = n1 /\ Len(R) = n2)

\* partition about to advance i from low - 1 = -1 and use index 0, at the
\* last index of its scan
C11_Witness ==
    /\ pc = "partition"
    /\ i = -1
    /\ j = Top.hi - 1
    /\ Top.hi = Len(array) - 1
    /\ Len(array) >= 3
    /\ PartitionLess(GetItem(array, j), pivot)


\* C12: the account's balance changes only in a deposit or withdraw call made
\* while modify_balance is True; get_balance returns the balance while
\* view_balance is True and None otherwise; a new proxy has both permissions
\* False.
C12_PermissionGate ==
    /\ [](/\ call = "__init__" =>
                (~permissions["view_balance"] /\ ~permissions["modify_balance"])
          /\ call = "get_balance" =>
                result = IF permissions["view_balance"] THEN Some(balance) ELSE PyNone)
    /\ [][balance' # balance =>
            (permissions["modify_balance"] /\ call' \in {"deposit", "withdraw"})]_vars
    /\ [][(call' \in {"deposit", "withdraw"} /\ ~permissions["modify_balance"]) =>
            balance' = balance]_vars

\* a deposit was refused, then allowed, and the balance read with permission
C12_Witness ==
    /\ call = "get_balance"
    /\ permissions["view_balance"]
    /\ result = Some(balance)
    /\ said = <<"Deposited", 2, 3>>
    /\ balance = 3


\* the merge of two sequences, ties taken from the first
RECURSIVE MergeOf(_, _)
MergeOf(l, r) ==
    IF l = <<>> THEN r
    ELSE IF r = <<>> THEN l
    ELSE IF l[1].key <= r[1].key
         THEN <<l[1]>> \o MergeOf(Tail(l), r)
         ELSE <<r[1]>> \o MergeOf(l, Tail(r))

\* merge has left its last loop
MergeDone == pc = "merge" /\ ~(i < n1) /\ ~(j < n2)

\* C13: merge(array, left, middle, right) writes the merge of array[left..middle]
\* and array[middle+1..right] into positions left..right, and changes no
\* position outside left..right.
C13_MergeFrame ==
    /\ [](MergeDone => SubSeq(array, Top.lo + 1, Top.hi + 1) = MergeOf(L, R))
    /\ [][pc = "merge" =>
            \A p \in DOMAIN array :
                (p < Top.lo + 1 \/ p > Top.hi + 1) => array'[p] = array[p]]_vars


\* the elements of a at the list indices lo..hi
Run(a, lo, hi) == SubSeq(a, lo + 1, hi + 1)
\* partition has just returned pi to the executing quick_sort call
PartitionReturned == pc = "quick_sort" /\ Top.at = "rec1"

\* C14: for low < high, partition returns p in low..high with array[p] the
\* pivot (the array[high] it was called with), the elements at low..p-1 less
\* than the pivot and those at p+1..high not less; array[low..high] is a
\* permutation of what it was and the positions outside are unchanged; during
\* the scan the elements at low..i are less than the pivot.
C14_Partition ==
    /\ [](/\ pc = "partition" =>
                /\ Top.lo < Top.hi
                /\ Top.lo - 1 <= i /\ i < j /\ j <= Top.hi
                /\ GetItem(array, Top.hi) = pivot
                /\ \A x \in Top.lo..i : GetItem(array, x).key < pivot.key
          /\ PartitionReturned =>
                /\ Top.lo <= Top.mid /\ Top.mid <= Top.hi
                /\ \A x \in Top.lo..(Top.mid - 1) :
                       GetItem(array, x).key < GetItem(array, Top.mid).key
                /\ \A x \in (Top.mid + 1)..Top.hi :
                       GetItem(array, x).key >= GetItem(array, Top.mid).key)
    /\ [][(pc = "quick_sort" /\ pc' = "partition") => pivot' = GetItem(array, Top.hi)]_vars
    /\ [][(pc = "partition" /\ pc' = "quick_sort") => GetItem(array', Top'.mid) = pivot]_vars
    /\ [][pc = "partition" =>
            /\ IsPermutation(Run(array', Top.lo, Top.hi), Run(array, Top.lo, Top.hi))
            /\ \A x \in 0..(Len(array) - 1) :
                   (x < Top.lo \/ x > Top.hi) => GetItem(array', x) = GetItem(array, x)]_vars

\* partition returned a pivot index strictly inside low..high of a changed array
C14_Witness ==
    /\ PartitionReturned
    /\ Top.lo < Top.mid
    /\ Top.mid < Top.hi
    /\ array # input


\* C15: BubbleSortStrategy.sort is stable: it exchanges only adjacent elements
\* of which the first is strictly greater, so elements that compare equal are
\* never exchanged with each other, and at every step and on return they are
\* in the order they had in the input.
C15_BubbleSortStable ==
    /\ []((pc = "bubble" \/ ReturnedFrom("BubbleSortStrategy")) =>
            /\ IsStable(array, input)
            /\ \A p, q \in DOMAIN array :
                   (p < q /\ array[p].key = array[q].key) => array[p].tag < array[q].tag)
    /\ [][(pc = "bubble" /\ array' # array) =>
            \E p \in 1..(Len(array) - 1) :
                /\ array' = [array EXCEPT ![p] = array[p + 1], ![p + 1] = array[p]]
                /\ array[p].key > array[p + 1].key]_vars

\* equal elements were interleaved with others in the input and the sort moved them
C15_Witness ==
    /\ ReturnedFrom("BubbleSortStrategy")
    /\ Keys(input) = <<2, 1, 2, 1>>
    /\ array = <<Elem(1, 1), Elem(1, 3), Elem(2, 0), Elem(2, 2)>>


\* the index range of a call frame, as a number that a shorter range makes smaller
RangeSize(f) == f.hi - f.lo

\* every call on the stack is on a strictly shorter index range than its
\* caller, inside the caller's range, and the caller was not at its base case
RecursionShrinks ==
    \A x \in 1..(Len(stack) - 1) :
        LET callee == stack[x]
            caller == stack[x + 1]
        IN  /\ caller.lo < caller.hi
            /\ RangeSize(callee) < RangeSize(caller)
            /\ caller.lo <= callee.lo /\ callee.hi <= caller.hi
            /\ running = "QuickSortStrategy" =>
                   ~(callee.lo <= caller.mid /\ caller.mid <= callee.hi)
            /\ running = "MergeSortStrategy" =>
                   (caller.lo <= caller.mid /\ caller.mid < caller.hi)

\* C16: every process_data call, with any strategy and any input, eventually
\* returns; every recursive call of quick_sort and merge_sort is on a strictly
\* shorter index range than its caller (the pivot index in neither QuickSort
\* sub-range, left <= middle < right in MergeSort).
C16_Termination ==
    /\ []RecursionShrinks
    /\ (pc = "sort") ~> Returned

\* QuickSort has returned from its deepest recursion, a sorted input of length 4
C16_Witness ==
    /\ ReturnedFrom("QuickSortStrategy")
    /\ Len(input) = 4
    /\ IsSorted(input)
    /\ cmps = 6

====
